---- MODULE Spec2Model ----
(***************************************************************************)
(* Lens algebra of tailcallhq/lens: the path descriptor (src/lens.rs), its *)
(* builder (src/select.rs) and the two projections, View (src/view.rs) and *)
(* Modify (src/modify.rs), over serde_json values.                         *)
(*                                                                         *)
(* A reference into the document (&Value, &mut Value) is modelled by the   *)
(* path from the document root to the referenced value; reading through a  *)
(* reference is At, writing through it is Put.                             *)
(***************************************************************************)
EXTENDS Integers, Sequences, FiniteSets, TLC

\* ------------------------------------------------------------------ bounds
MaxLen == 2       \* longest array of an initial document
MaxSets == 2      \* longest sequence of set calls in SpecSeq

Keys == {"a", "b"}

\* ----------------------------------------------------- serde_json::Value
Absent == [kind |-> "absent"]          \* a key the object does not hold
Null == [kind |-> "null"]
Num(n) == [kind |-> "num", n |-> n]
Arr(s) == [kind |-> "arr", items |-> s]
Obj(f) == [kind |-> "obj", map |-> f]

IsArr(v) == v.kind = "arr"
IsObj(v) == v.kind = "obj"

\* ------------------------------------------------------- Option<T>
None == [none |-> TRUE]
Some(v) == [some |-> v]

\* ---------------------------------------------------------------- Lens
Field(k) == [t |-> "Field", field |-> k]
Index(i) == [t |-> "Index", index |-> i]
Compose(first, second) == [t |-> "Compose", first |-> first, second |-> second]
ForEach == [t |-> "ForEach"]
Empty == [t |-> "Empty"]

\* ------------------------------------------------- references as paths
Key(k) == [key |-> k]
Idx(i) == [idx |-> i]

RECURSIVE At(_, _)
At(value, p) ==
  IF p = <<>> THEN value
  ELSE IF "key" \in DOMAIN Head(p)
       THEN At(value.map[Head(p).key], Tail(p))
       ELSE At(value.items[Head(p).idx + 1], Tail(p))

RECURSIVE Put(_, _, _)
Put(value, p, new) ==
  IF p = <<>> THEN new
  ELSE IF "key" \in DOMAIN Head(p)
       THEN Obj([value.map EXCEPT ![Head(p).key] = Put(@, Tail(p), new)])
       ELSE Arr([value.items EXCEPT ![Head(p).idx + 1] = Put(@, Tail(p), new)])

\* ------------------------------------------------------ View and Modify
Borrow(p) == [borrow |-> p]
BorrowVec(vs) == [vec |-> vs]
BorrowMut(p) == [borrow_mut |-> p]
BorrowVecMut(ms) == [vec_mut |-> ms]

IsBorrow(view) == "borrow" \in DOMAIN view
IsBorrowMut(modify) == "borrow_mut" \in DOMAIN modify

\* Iterator::filter_map(..).collect() over the Option results rs
Somes(rs) ==
  LET kept == SelectSeq(rs, LAMBDA r : r # None)
  IN  [j \in 1..Len(kept) |-> kept[j].some]

RECURSIVE LensGet(_, _, _), ViewGet(_, _, _)
RECURSIVE LensGetMut(_, _, _), ModifyGetMut(_, _, _)
RECURSIVE LensSet(_, _, _, _), ModifySet(_, _, _, _), SetEach(_, _, _, _)

\* Lens::get(&self, value), value being the reference p into doc
LensGet(lens, doc, p) ==
  LET value == At(doc, p) IN
  CASE lens.t = "Field" ->
         IF IsObj(value) /\ value.map[lens.field] # Absent
         THEN Some(Borrow(p \o <<Key(lens.field)>>)) ELSE None
    [] lens.t = "Index" ->
         IF IsArr(value) /\ lens.index < Len(value.items)
         THEN Some(Borrow(p \o <<Idx(lens.index)>>)) ELSE None
    [] lens.t = "Compose" ->
         LET r == LensGet(lens.first, doc, p)
         IN  IF r # None THEN ViewGet(r.some, lens.second, doc) ELSE None
    [] lens.t = "ForEach" ->
         IF IsArr(value)
         THEN Some(BorrowVec([j \in 1..Len(value.items) |-> Borrow(p \o <<Idx(j - 1)>>)]))
         ELSE None
    [] lens.t = "Empty" -> Some(Borrow(p))

\* View::get(self, lens)
ViewGet(view, lens, doc) ==
  IF IsBorrow(view)
  THEN LensGet(lens, doc, view.borrow)
  ELSE Some(BorrowVec(Somes([j \in 1..Len(view.vec) |-> ViewGet(view.vec[j], lens, doc)])))

\* Lens::get_mut(&self, value)
LensGetMut(lens, doc, p) ==
  LET value == At(doc, p) IN
  CASE lens.t = "Field" ->
         IF IsObj(value) /\ value.map[lens.field] # Absent
         THEN Some(BorrowMut(p \o <<Key(lens.field)>>)) ELSE None
    [] lens.t = "Index" ->
         IF IsArr(value) /\ lens.index < Len(value.items)
         THEN Some(BorrowMut(p \o <<Idx(lens.index)>>)) ELSE None
    [] lens.t = "Compose" ->
         LET inner == LensGetMut(lens.first, doc, p)
         IN  IF inner # None THEN ModifyGetMut(inner.some, lens.second, doc) ELSE None
    [] lens.t = "ForEach" ->
         IF IsArr(value)
         THEN Some(BorrowVecMut([j \in 1..Len(value.items) |-> BorrowMut(p \o <<Idx(j - 1)>>)]))
         ELSE None
    [] lens.t = "Empty" -> Some(BorrowMut(p))

\* Modify::get_mut that turns an empty Many into no result
ModifyGetMutCollapse(modify, lens, doc) ==
  IF IsBorrowMut(modify)
  THEN LensGetMut(lens, doc, modify.borrow_mut)
  ELSE LET kept == Somes([j \in 1..Len(modify.vec_mut) |-> ModifyGetMut(modify.vec_mut[j], lens, doc)])
       IN  IF kept = <<>> THEN None ELSE Some(BorrowVecMut(kept))

\* Modify::get_mut(self, lens)
ModifyGetMut(modify, lens, doc) ==
  IF IsBorrowMut(modify)
  THEN LensGetMut(lens, doc, modify.borrow_mut)
  ELSE Some(BorrowVecMut(Somes([j \in 1..Len(modify.vec_mut) |-> ModifyGetMut(modify.vec_mut[j], lens, doc)])))

\* the Field arm as obj.entry(field).or_insert(target): a held key keeps its value
LensSetFieldKeep(field, doc, p, target) ==
  LET source == At(doc, p) IN
  IF IsObj(source) /\ source.map[field] = Absent
  THEN Put(doc, p, Obj([source.map EXCEPT ![field] = target]))
  ELSE doc

\* the Field arm building a fresh object that holds the one key
LensSetFieldOnly(field, doc, p, target) ==
  LET source == At(doc, p) IN
  IF IsObj(source)
  THEN Put(doc, p, Obj([k \in Keys |-> IF k = field THEN target ELSE Absent]))
  ELSE doc

\* Lens::set, arm Lens::Field(field); source is the reference p into doc and
\* the result is the document after the call
LensSetField(field, doc, p, target) ==
  LET source == At(doc, p) IN
  IF IsObj(source)
  THEN Put(doc, p, Obj([source.map EXCEPT ![field] = target]))
  ELSE doc

\* the Index arm as arr.insert(index, target): the slots from index on shift
LensSetIndexInsert(index, doc, p, target) ==
  LET source == At(doc, p) IN
  IF IsArr(source) /\ index < Len(source.items)
  THEN Put(doc, p, Arr(SubSeq(source.items, 1, index) \o <<target>>
                         \o SubSeq(source.items, index + 1, Len(source.items))))
  ELSE doc

\* the Index arm growing the array when the index is one past its end
LensSetIndexPush(index, doc, p, target) ==
  LET source == At(doc, p) IN
  IF IsArr(source) /\ index < Len(source.items)
  THEN Put(doc, p, Arr([source.items EXCEPT ![index + 1] = target]))
  ELSE IF IsArr(source) /\ index = Len(source.items)
       THEN Put(doc, p, Arr(Append(source.items, target)))
       ELSE doc

\* Lens::set, arm Lens::Index(index)
LensSetIndex(index, doc, p, target) ==
  LET source == At(doc, p) IN
  IF IsArr(source) /\ index < Len(source.items)
  THEN Put(doc, p, Arr([source.items EXCEPT ![index + 1] = target]))
  ELSE doc

\* the Compose arm with first and second exchanged
LensSetComposeSwapped(first, second, doc, p, target) ==
  LET modify == LensGetMut(second, doc, p)
  IN  IF modify # None THEN ModifySet(modify.some, first, doc, target) ELSE doc

\* Lens::set, arm Lens::Compose(first, second)
LensSetCompose(first, second, doc, p, target) ==
  LET modify == LensGetMut(first, doc, p)
  IN  IF modify # None THEN ModifySet(modify.some, second, doc, target) ELSE doc

\* the ForEach arm leaving the last element as it was
LensSetForEachShort(doc, p, target) ==
  LET source == At(doc, p) IN
  IF IsArr(source)
  THEN Put(doc, p, Arr([j \in 1..Len(source.items) |->
                          IF j < Len(source.items) THEN target ELSE source.items[j]]))
  ELSE doc

\* Lens::set, arm Lens::ForEach
LensSetForEach(doc, p, target) ==
  LET source == At(doc, p) IN
  IF IsArr(source)
  THEN Put(doc, p, Arr([j \in 1..Len(source.items) |-> target]))
  ELSE doc

\* the Empty arm as *source = target
LensSetEmptyReplace(doc, p, target) == Put(doc, p, target)

\* Lens::set, arm Lens::Empty
LensSetEmpty(doc, p, target) == doc

\* Lens::set(&self, source, target)
LensSet(lens, doc, p, target) ==
  CASE lens.t = "Field" -> LensSetField(lens.field, doc, p, target)
    [] lens.t = "Index" -> LensSetIndex(lens.index, doc, p, target)
    [] lens.t = "Compose" -> LensSetCompose(lens.first, lens.second, doc, p, target)
    [] lens.t = "ForEach" -> LensSetForEach(doc, p, target)
    [] lens.t = "Empty" -> LensSetEmpty(doc, p, target)

\* the write-through of a Many that stops after its first element
SetEachFirst(values, lens, doc, new_value) ==
  IF values = <<>> THEN doc
  ELSE ModifySet(Head(values), lens, doc, new_value)

\* values.into_iter().for_each(|value| value.set(lens, new_value.clone()))
SetEach(values, lens, doc, new_value) ==
  IF values = <<>> THEN doc
  ELSE SetEach(Tail(values), lens, ModifySet(Head(values), lens, doc, new_value), new_value)

\* Modify::set(self, lens, new_value)
ModifySet(modify, lens, doc, new_value) ==
  IF IsBorrowMut(modify)
  THEN LensSet(lens, doc, modify.borrow_mut, new_value)
  ELSE SetEach(modify.vec_mut, lens, doc, new_value)

\* ------------------------------------------------- Select (src/select.rs)
\* impl Select for Lens: self.pipe(other)
PipeLens(self, other) == Compose(other, self)
\* Lens::select(self, item) with item a Lens
SelectLens(lens, item) == PipeLens(item, lens)
\* impl Select for String / &str: lens.select(Lens::Field(self))
SelectField(lens, k) == SelectLens(lens, Field(k))
\* impl Select for usize: lens.select(Lens::Index(self))
SelectIndex(lens, i) == SelectLens(lens, Index(i))
\* Lens::foreach()
Foreach == ForEach
\* Lens::each(self): Lens::ForEach.pipe(self)
Each(lens) == PipeLens(ForEach, lens)

\* ------------------------------------------------------------- inputs
Scalars == {Null, Num(1)}
Arrays(S) == {Arr(s) : s \in UNION {[1..n -> S] : n \in 0..MaxLen}}
Objects(S) == {Obj(f) : f \in [Keys -> S \cup {Absent}]}
\* documents of depth at most one
Values1 == Scalars \cup Arrays(Scalars) \cup Objects(Scalars)
\* the elements of the initial arrays of depth two
Elems == Scalars \cup {Arr(<<>>), Arr(<<Num(1)>>)} \cup Objects({Num(1)})
\* the initial objects of depth two: any value of depth one under "a", a scalar
\* or nothing under "b"
Objects2 ==
  {Obj([k \in Keys |-> IF k = "a" THEN v ELSE w]) :
     v \in Values1 \cup {Absent}, w \in Scalars \cup {Absent}}
Docs == Values1 \cup Arrays(Elems) \cup Objects2

\* replacement values: a scalar no initial document holds, and two containers
Targets == {Num(2), Arr(<<>>), Obj([k \in Keys |-> IF k = "a" THEN Num(2) ELSE Absent])}

\* one-step lenses; Index(MaxLen - 1) is out of range of every shorter array
Steps == {Field(k) : k \in Keys} \cup {Index(i) : i \in 0..(MaxLen - 1)} \cup {ForEach, Empty}
\* l.select(s), Lens::default().select(s1).select(s2) and s1.select(Lens::new(s2))
Lenses ==
  Steps \cup {SelectLens(l, s) : l, s \in Steps}
        \cup {SelectLens(SelectLens(Empty, s1), s2) : s1, s2 \in Steps}
        \cup {SelectLens(s1, SelectLens(Empty, s2)) : s1, s2 \in Steps}

\* ---------------------------------------------------------------- state
VARIABLES
  doc,     \* the document (the serde_json::Value the caller owns)
  pre,     \* the document before the last set
  orig,    \* the document at the start
  lens,    \* the lens of the last call
  target,  \* the replacement value of the last set
  op,      \* the last call
  res,     \* what the last get or get_mut returned
  alt,     \* SpecAssoc: the outcome of the same call with the lens nested to the right
  nsets    \* the number of set calls so far
vars == <<doc, pre, orig, lens, target, op, res, alt, nsets>>

Init ==
  /\ doc \in Docs
  /\ pre = doc
  /\ orig = doc
  /\ lens = Empty
  /\ target = Null
  /\ op = "init"
  /\ res = None
  /\ alt = None
  /\ nsets = 0

\* let view = lens.get(&value)
Get(L) ==
  /\ op = "init"
  /\ lens' = L
  /\ res' = LensGet(L, doc, <<>>)
  /\ op' = "get"
  /\ UNCHANGED <<doc, pre, orig, target, alt, nsets>>

\* let modify = lens.get_mut(&mut value)
GetMut(L) ==
  /\ op = "init"
  /\ lens' = L
  /\ res' = LensGetMut(L, doc, <<>>)
  /\ op' = "get_mut"
  /\ UNCHANGED <<doc, pre, orig, target, alt, nsets>>

\* lens.set(&mut value, x)
Set(L, x) ==
  /\ op = "init"
  /\ lens' = L
  /\ target' = x
  /\ pre' = doc
  /\ doc' = LensSet(L, doc, <<>>, x)
  /\ op' = "set"
  /\ nsets' = nsets + 1
  /\ UNCHANGED <<orig, res, alt>>

\* the same lens.set(&mut value, x) once more
SetAgain ==
  /\ op = "set"
  /\ pre' = doc
  /\ doc' = LensSet(lens, doc, <<>>, target)
  /\ op' = "set_again"
  /\ nsets' = nsets + 1
  /\ UNCHANGED <<orig, lens, target, res, alt>>

\* lens.get(&value) after lens.set(&mut value, x)
GetBack ==
  /\ op = "set"
  /\ res' = LensGet(lens, doc, <<>>)
  /\ op' = "get_back"
  /\ UNCHANGED <<doc, pre, orig, lens, target, alt, nsets>>

Next ==
  \/ \E L \in Lenses : Get(L)
  \/ \E L \in Lenses : GetMut(L)
  \/ \E L \in Lenses, x \in Targets : Set(L, x)
  \/ SetAgain
  \/ GetBack

Spec == Init /\ [][Next]_vars

\* ------------------------------------------- sequences of set calls
\* one more lens.set(&mut value, x) of a sequence, any lens and any replacement
SetNext(L, x) ==
  /\ nsets < MaxSets
  /\ doc' = LensSet(L, doc, <<>>, x)
  /\ op' = "set"
  /\ nsets' = nsets + 1
  /\ UNCHANGED <<pre, orig, lens, target, res, alt>>

\* the lenses of a sequence: one step, or two composed
SeqLenses == Steps \cup {SelectLens(l, s) : l, s \in Steps}

\* the documents a sequence starts from
SeqDocs == Values1 \cup Arrays(Elems)

InitSeq ==
  /\ doc \in SeqDocs
  /\ pre = doc
  /\ orig = doc
  /\ lens = Empty
  /\ target = Null
  /\ op = "init"
  /\ res = None
  /\ alt = None
  /\ nsets = 0

NextSeq == \E L \in SeqLenses, x \in Targets : SetNext(L, x)

SpecSeq == InitSeq /\ [][NextSeq]_vars

\* ------------------------- the two nestings of a three-step composition
\* a.select(b).select(c): Compose(Compose(a, b), c)
NestLeft(a, b, c) == SelectLens(SelectLens(a, b), c)
\* a.select(b.select(c)): Compose(a, Compose(b, c))
NestRight(a, b, c) == SelectLens(a, SelectLens(b, c))

\* documents of depth three: a document of depth two in an array or under a key
Docs3 ==
  Docs \cup {Arr(<<d>>) : d \in Arrays(Elems)}
       \cup {Obj([k \in Keys |-> IF k = "a" THEN d ELSE Absent]) : d \in Arrays(Elems)}

InitAssoc ==
  /\ doc \in Docs3
  /\ pre = doc
  /\ orig = doc
  /\ lens = Empty
  /\ target = Null
  /\ op = "init"
  /\ res = None
  /\ alt = None
  /\ nsets = 0

\* lens.get(&value) with both nestings of a, b, c
GetBoth(a, b, c) ==
  /\ op = "init"
  /\ lens' = NestLeft(a, b, c)
  /\ res' = LensGet(NestLeft(a, b, c), doc, <<>>)
  /\ alt' = LensGet(NestRight(a, b, c), doc, <<>>)
  /\ op' = "get"
  /\ UNCHANGED <<doc, pre, orig, target, nsets>>

\* lens.set(&mut value, x) with both nestings of a, b, c, each on its own copy
\* of the document
SetBoth(a, b, c, x) ==
  /\ op = "init"
  /\ lens' = NestLeft(a, b, c)
  /\ target' = x
  /\ pre' = doc
  /\ doc' = LensSet(NestLeft(a, b, c), doc, <<>>, x)
  /\ alt' = LensSet(NestRight(a, b, c), doc, <<>>, x)
  /\ op' = "set"
  /\ nsets' = nsets + 1
  /\ UNCHANGED <<orig, res>>

\* the lenses composed three at a time: the steps, and one lens of two steps
AssocSteps ==
  {Field(k) : k \in Keys} \cup {Index(0), ForEach, Empty, SelectField(Foreach, "a")}

NextAssoc ==
  \/ \E a, b, c \in AssocSteps : GetBoth(a, b, c)
  \/ \E a, b, c \in AssocSteps, x \in Targets : SetBoth(a, b, c, x)

SpecAssoc == InitAssoc /\ [][NextAssoc]_vars

\* ---------------------------------------------------------- properties
RECURSIVE NoForEach(_)
\* the lens holds no ForEach step
NoForEach(l) ==
  CASE l.t = "ForEach" -> FALSE
    [] l.t = "Compose" -> NoForEach(l.first) /\ NoForEach(l.second)
    [] OTHER -> TRUE

RECURSIVE LastStep(_)
\* the last step of the lens: the rightmost leaf of its Compose tree
LastStep(l) == IF l.t = "Compose" THEN LastStep(l.second) ELSE l

RECURSIVE SameOutside(_, _, _)
\* new differs from old at most at the location loc: along loc every container
\* keeps its kind, its length or key set, and every other slot and key
SameOutside(old, new, loc) ==
  IF loc = <<>> THEN TRUE
  ELSE /\ new.kind = old.kind
       /\ IF "key" \in DOMAIN Head(loc)
          THEN /\ IsObj(old)
               /\ \A k \in Keys \ {Head(loc).key} : new.map[k] = old.map[k]
               /\ old.map[Head(loc).key] # Absent
               /\ new.map[Head(loc).key] # Absent
               /\ SameOutside(old.map[Head(loc).key], new.map[Head(loc).key], Tail(loc))
          ELSE /\ IsArr(old)
               /\ Len(new.items) = Len(old.items)
               /\ Head(loc).idx < Len(old.items)
               /\ \A j \in 1..Len(old.items) :
                    j # Head(loc).idx + 1 => new.items[j] = old.items[j]
               /\ SameOutside(old.items[Head(loc).idx + 1], new.items[Head(loc).idx + 1], Tail(loc))

RECURSIVE AsModify(_)
\* the Modify of the shape and the locations of a View
AsModify(view) ==
  IF IsBorrow(view) THEN BorrowMut(view.borrow)
  ELSE BorrowVecMut([j \in 1..Len(view.vec) |-> AsModify(view.vec[j])])

AllObjects(d) == IsArr(d) /\ \A j \in 1..Len(d.items) : IsObj(d.items[j])

\* C1: set with Lens::foreach().select(k) on an array of objects leaves an array
\* of the same length in which every element maps k to the replacement and keeps
\* every other key as it was
ComposedBroadcastWrite ==
  \A k \in Keys :
    (/\ op = "set"
     /\ lens \in {SelectField(Foreach, k), SelectField(SelectLens(Empty, Foreach), k)}
     /\ AllObjects(pre))
    => /\ IsArr(doc)
       /\ Len(doc.items) = Len(pre.items)
       /\ \A j \in 1..Len(pre.items) :
            /\ IsObj(doc.items[j])
            /\ doc.items[j].map[k] = target
            /\ \A k2 \in Keys \ {k} : doc.items[j].map[k2] = pre.items[j].map[k2]

ComposedBroadcastWriteWitness ==
  /\ op = "set"
  /\ lens = SelectField(Foreach, "a")
  /\ AllObjects(pre)
  /\ Len(pre.items) >= 2
  /\ pre.items[1].map["b"] # Absent
  /\ pre.items[2].map["a"] = Absent
  /\ doc # pre

\* C2: narrowing a Many view by a lens that yields no result on any of its
\* elements returns no result: get with Compose(ForEach, L) on an array on none
\* of whose elements L succeeds returns None
NarrowManyCollapses ==
  (/\ op = "get"
   /\ lens.t = "Compose"
   /\ lens.first = ForEach
   /\ IsArr(doc)
   /\ \A j \in 1..Len(doc.items) : LensGet(lens.second, doc, <<Idx(j - 1)>>) = None)
  => res = None

\* C3 as claimed: for a lens without ForEach that yields Single on the document,
\* get after set returns Single of the replacement
RoundTrip ==
  (/\ op = "get_back"
   /\ NoForEach(lens)
   /\ LensGet(lens, pre, <<>>) # None)
  => /\ res # None
     /\ IsBorrow(res.some)
     /\ At(doc, res.some.borrow) = target

\* C3 as amended: the same, for a lens whose last step is a Field or an Index
RoundTripLastStep ==
  (/\ op = "get_back"
   /\ NoForEach(lens)
   /\ LastStep(lens).t # "Empty"
   /\ LensGet(lens, pre, <<>>) # None)
  => /\ res # None
     /\ IsBorrow(res.some)
     /\ At(doc, res.some.borrow) = target

RoundTripWitness ==
  /\ op = "get_back"
  /\ lens = SelectIndex(Field("a"), 1)
  /\ LensGet(lens, pre, <<>>) # None
  /\ doc # pre

\* C4: for a lens without ForEach, the second of two identical set calls leaves
\* the document as the first left it
SetIdempotent ==
  (op = "set_again" /\ NoForEach(lens)) => doc = pre

SetIdempotentWitness ==
  /\ op = "set_again"
  /\ lens.t = "Compose"
  /\ NoForEach(lens)
  /\ LastStep(lens).t = "Field"
  /\ doc # orig
  /\ target.kind = "obj"

\* C5: get_mut yields a result iff get does, of the same Single/Many shape and
\* the same locations in the same order; get_mut of ForEach on an array yields
\* one Single handle per element, in order
GetMutMirrorsGet ==
  op = "get_mut" =>
    /\ (res = None) <=> (LensGet(lens, doc, <<>>) = None)
    /\ res # None => res.some = AsModify(LensGet(lens, doc, <<>>).some)
    /\ (lens = ForEach /\ IsArr(doc)) =>
         res = Some(BorrowVecMut([j \in 1..Len(doc.items) |-> BorrowMut(<<Idx(j - 1)>>)]))

GetMutMirrorsGetWitness ==
  /\ op = "get_mut"
  /\ lens.t = "Compose"
  /\ res # None
  /\ ~IsBorrowMut(res.some)
  /\ Len(res.some.vec_mut) = 1
  /\ IsArr(doc)
  /\ Len(doc.items) = 2

\* C6: set leaves the document as it was when the lens is a Field and the
\* document no object, an Index and the document no array or the index out of
\* range, ForEach and the document no array, Empty, or a Compose whose outer
\* lens yields no mutable projection
Mismatch(l, d) ==
  \/ l.t = "Field" /\ ~IsObj(d)
  \/ l.t = "Index" /\ (~IsArr(d) \/ l.index >= Len(d.items))
  \/ l.t = "ForEach" /\ ~IsArr(d)
  \/ l.t = "Empty"
  \/ l.t = "Compose" /\ LensGetMut(l.first, d, <<>>) = None

SilentNoOp ==
  (op = "set" /\ Mismatch(lens, pre)) => doc = pre

SilentNoOpWitness ==
  /\ op = "set"
  /\ lens.t = "Compose"
  /\ lens.first = Index(1)
  /\ IsArr(pre)
  /\ Len(pre.items) = 1
  /\ Mismatch(lens, pre)

\* C7: set with ForEach on an array leaves an array of the same length whose
\* every element is the replacement; set with p.each(), p addressing an array,
\* overwrites every element of that array and changes nothing outside it
Broadcast(arr, x) == Arr([j \in 1..Len(arr.items) |-> x])

PlainBroadcastWrite ==
  /\ (op = "set" /\ lens = ForEach /\ IsArr(pre)) => doc = Broadcast(pre, target)
  /\ (/\ op = "set"
      /\ lens.t = "Compose"
      /\ lens = Each(lens.first)
      /\ NoForEach(lens.first)
      /\ LensGet(lens.first, pre, <<>>) # None
      /\ IsArr(At(pre, LensGet(lens.first, pre, <<>>).some.borrow)))
     => LET loc == LensGet(lens.first, pre, <<>>).some.borrow
        IN  /\ At(doc, loc) = Broadcast(At(pre, loc), target)
            /\ SameOutside(pre, doc, loc)

PlainBroadcastWriteWitness ==
  /\ op = "set"
  /\ lens = Each(Field("a"))
  /\ IsObj(pre)
  /\ pre.map["a"] # Absent
  /\ IsArr(pre.map["a"])
  /\ Len(pre.map["a"].items) = 2
  /\ pre.map["b"] # Absent

\* C8: for a lens without ForEach that yields Single on the document, set
\* changes the document at most at the location the lens addresses
FrameOfWrite ==
  (/\ op = "set"
   /\ NoForEach(lens)
   /\ LensGet(lens, pre, <<>>) # None)
  => SameOutside(pre, doc, LensGet(lens, pre, <<>>).some.borrow)

FrameOfWriteWitness ==
  /\ op = "set"
  /\ lens = SelectField(Index(0), "a")
  /\ LensGet(lens, pre, <<>>) # None
  /\ Len(pre.items) = 2
  /\ pre.items[1].map["b"] # Absent
  /\ doc # pre

\* C9: whatever the set calls so far, the root keeps its kind, an array root its
\* length, an object root every key it started with, and a scalar or null root
\* its value
StructurePreserved ==
  /\ doc.kind = orig.kind
  /\ IsArr(orig) => Len(doc.items) = Len(orig.items)
  /\ IsObj(orig) => \A k \in Keys : orig.map[k] # Absent => doc.map[k] # Absent
  /\ (~IsArr(orig) /\ ~IsObj(orig)) => doc = orig

StructurePreservedWitness ==
  /\ nsets >= 2
  /\ IsArr(orig)
  /\ Len(orig.items) = 2
  /\ doc.items[1] # orig.items[1]
  /\ doc.items[2] # orig.items[2]
  /\ doc.items[1] # doc.items[2]

\* C10: Compose(Compose(a, b), c) and Compose(a, Compose(b, c)) give the same
\* result for get and leave the document in the same state for set
ComposeAssociative ==
  /\ op = "get" => res = alt
  /\ op = "set" => doc = alt

ComposeAssociativeWitness ==
  /\ op = "set"
  /\ lens = NestLeft(Field("a"), ForEach, Field("a"))
  /\ doc # pre
  /\ doc = alt

====
